---- MODULE Spec2Model ----
(***************************************************************************)
(* Model of the DIY troubleshooting chatbot: the workflow engine (a call   *)
(* stack of frames driven by LLM step decisions), the step executor's      *)
(* prompt assembly, the transition narrator, the chat service's            *)
(* process_message loop and the two session repositories.                  *)
(*                                                                         *)
(* One process_message call is split at its await points: the router       *)
(* call, the executor's LLM call and the narrator's LLM call.  Everything  *)
(* between two awaits runs without interleaving (asyncio), so it is one    *)
(* action.                                                                 *)
(***************************************************************************)
EXTENDS Integers, Sequences, FiniteSets, TLC

VARIABLES
    repo,        \* which SessionRepository the service is wired with
    templating,  \* which step-introduction prompt builder the build uses
    store,       \* the session store's entry for the one modelled session
    created,     \* create() has been called
    req,         \* per client: the process_message call in flight / last finished
    turns        \* number of process_message calls started so far

vars == <<repo, templating, store, created, req, turns>>

\* ---------------------------------------------------------------- bounds
MaxTurns == 3

\* ------------------------------------------------------------ value space
None == "None"

\* The client whose calls the sequential specification follows, and all
\* clients that may call the service on the one modelled session.
ClientIds == {1}

AllClients == {1, 2}

StepStatus == {"IN_PROGRESS", "COMPLETE", "CALL_WORKFLOW", "GIVE_UP"}

\* Optional[WorkflowResult] is a sequence of length 0 (None) or 1.
NoResult == <<>>

\* ------------------------------------------------------- workflow store
\* Steps keep the fields the engine, the executor and the narrator read.
\* step.goal is modelled by the step id, and so is the slot_name of an
\* ask_slot step.
MkStep(id, type, warning, links, options, next) ==
    [id |-> id, type |-> type, goal |-> id, warning |-> warning,
     suggested_links |-> links, options |-> options, next_step |-> next,
     slot_name |-> IF type = "ask_slot" THEN id ELSE None]

MkOption(id, next) == [id |-> id, next_step_id |-> next]

\* troubleshoot_lukewarm_water, abridged to the thermostat and sediment
\* branches (the breaker/demand chain between them is left out).
lukewarm_workflow ==
    [name |-> "troubleshoot_lukewarm_water",
     start_step |-> "step_01_thermostat",
     steps |->
       ( "step_01_thermostat" :> MkStep("step_01_thermostat", "ask_choice", TRUE, <<>>,
             <<MkOption("was_low", "end_success_thermostat"),
               MkOption("was_correct", "step_04_sediment")>>, None)
      @@ "step_04_sediment" :> MkStep("step_04_sediment", "ask_choice", FALSE,
             <<"drain_water_heater">>,
             <<MkOption("hard_water_suspected", "step_04a_flush_tank")>>, None)
      @@ "step_04a_flush_tank" :> MkStep("step_04a_flush_tank", "instruction", FALSE,
             <<>>, <<>>, "end_sediment_resolved")
      @@ "end_success_thermostat" :> MkStep("end_success_thermostat", "end", FALSE,
             <<>>, <<>>, None)
      @@ "end_sediment_resolved" :> MkStep("end_sediment_resolved", "end", FALSE,
             <<>>, <<>>, None) )]

\* drain_water_heater, abridged to its first and last step.
drain_water_heater_workflow ==
    [name |-> "drain_water_heater",
     start_step |-> "drain_step_01_power_off",
     steps |->
       ( "drain_step_01_power_off" :> MkStep("drain_step_01_power_off", "instruction",
             TRUE, <<>>, <<>>, "drain_end_success")
      @@ "drain_end_success" :> MkStep("drain_end_success", "end", FALSE,
             <<>>, <<>>, None) )]

\* A workflow row as the workflows table can hold it: the JSON is parsed
\* without any check of its edges.  One option edge dangles, a choice
\* step has a default next_step next to its options, and an ask_slot step
\* names a slot.
custom_workflow ==
    [name |-> "custom_guide",
     start_step |-> "c_step_01",
     steps |->
       ( "c_step_01" :> MkStep("c_step_01", "ask_choice", FALSE, <<>>,
             <<MkOption("yes", "c_step_02"), MkOption("no", "c_missing")>>, "c_end")
      @@ "c_step_02" :> MkStep("c_step_02", "ask_slot", FALSE, <<>>, <<>>, "c_end")
      @@ "c_end" :> MkStep("c_end", "end", FALSE, <<>>, <<>>, None) )]

\* A workflow row whose start_step is the id of none of its steps.
draft_workflow ==
    [name |-> "draft_guide",
     start_step |-> "d_step_01",
     steps |-> ( "d_end" :> MkStep("d_end", "end", FALSE, <<>>, <<>>, None) )]

Workflows ==
    ( "troubleshoot_lukewarm_water" :> lukewarm_workflow
   @@ "drain_water_heater" :> drain_water_heater_workflow
   @@ "custom_guide" :> custom_workflow
   @@ "draft_guide" :> draft_workflow )

WorkflowIds == DOMAIN Workflows

\* WorkflowRepository.workflow_exists
WorkflowExists(workflow_id) == workflow_id \in WorkflowIds

\* What the router may answer: a workflow id, or None for no match.
RouterResults == WorkflowIds \cup {None}

\* What the LLM may put into result_value of a COMPLETE decision (an
\* option id or nothing) and of a CALL_WORKFLOW decision (a workflow id,
\* known or not, or nothing).
CompleteValues == {None, "was_low", "was_correct", "hard_water_suspected", "yes", "no"}

CallValues == {None, "", "drain_water_heater", "draft_guide", "unknown_workflow"}

UserTexts == {"", "hi"}

\* ------------------------------------------------------------ state layer
Frame(workflow_name, current_step_id) ==
    [workflow_name |-> workflow_name, current_step_id |-> current_step_id,
     pending_child_result |-> NoResult]

Message(role, content) == [role |-> role, content |-> content]

\* What a frame points at.
Pointer(frame) == <<frame.workflow_name, frame.current_step_id>>

\* SessionState as create() builds it.  calls is a history field that the
\* program does not have: for every frame above the bottom one, what the
\* frame below it pointed at when _push_child_workflow pushed the frame.
EmptySession == [stack |-> <<>>, slots |-> <<>>, history |-> <<>>, calls |-> <<>>]

\* SessionState.active_frame is stack[-1]; callers test the stack first.
ActiveFrame(session) == session.stack[Len(session.stack)]

StepDecision(reply, status, result_value, reasoning) ==
    [reply_to_user |-> reply, status |-> status, result_value |-> result_value,
     reasoning |-> reasoning]

NoDecision == StepDecision(<<>>, "NONE", None, "")

\* ------------------------------------------------------------- executor
\* StepExecutor._build_system_prompt: the blocks of the prompt, in order.
BuildSystemPrompt(step, frame) ==
    <<"CORE", "GOAL">>
    \o (IF step.warning THEN <<"WARNING">> ELSE <<>>)
    \o (IF frame.pending_child_result # NoResult THEN <<"MAILBOX">> ELSE <<>>)
    \o <<"INSTRUCTIONS">>
    \o (IF step.type = "ask_choice" /\ step.options # <<>> THEN <<"OPTIONS">> ELSE <<>>)
    \o (IF step.suggested_links # <<>> THEN <<"LINKS">> ELSE <<>>)

HasBlock(prompt, block) == \E i \in 1..Len(prompt) : prompt[i] = block

\* The except branch answering with a COMPLETE decision.
ExecutorFallback_complete ==
    StepDecision(<<"System Error. Please try again.">>, "COMPLETE", None, "Error")

\* StepExecutor.run_turn, the except branch.
ExecutorFallback ==
    StepDecision(<<"System Error. Please try again.">>, "IN_PROGRESS", None, "Error")

\* What the LLM may answer to the executor's request.
ExecutorAnswers ==
    { StepDecision(<<"reply">>, st, None, "because") : st \in {"IN_PROGRESS", "GIVE_UP"} }
    \cup { StepDecision(<<"reply">>, "COMPLETE", rv, "because") : rv \in CompleteValues }
    \cup { StepDecision(<<"reply">>, "CALL_WORKFLOW", rv, "because") : rv \in CallValues }

\* --------------------------------------------------------------- engine
\* _get_execution_context reporting a frame of an unknown workflow as no
\* frame at all.
ContextError_unknownAsEmpty(session) ==
    IF session.stack = <<>> THEN "stack_empty"
    ELSE IF ~WorkflowExists(ActiveFrame(session).workflow_name) THEN "stack_empty"
    ELSE IF ActiveFrame(session).current_step_id
              \notin DOMAIN Workflows[ActiveFrame(session).workflow_name].steps
         THEN "step_not_found"
    ELSE "none"

\* WorkflowEngine._get_execution_context: does it return, and what.
ContextError(session) ==
    IF session.stack = <<>> THEN "stack_empty"
    ELSE IF ~WorkflowExists(ActiveFrame(session).workflow_name) THEN "workflow_not_found"
    ELSE IF ActiveFrame(session).current_step_id
              \notin DOMAIN Workflows[ActiveFrame(session).workflow_name].steps
         THEN "step_not_found"
    ELSE "none"

ContextWorkflow(session) == Workflows[ActiveFrame(session).workflow_name]

ContextStep(session) ==
    ContextWorkflow(session).steps[ActiveFrame(session).current_step_id]

\* next(opt for opt in options if opt.id == result_value): index of the
\* first match, 0 when there is none.
SelectedOption(options, result_value) ==
    IF \E i \in 1..Len(options) : options[i].id = result_value
    THEN CHOOSE i \in 1..Len(options) :
            /\ options[i].id = result_value
            /\ \A j \in 1..(i - 1) : options[j].id # result_value
    ELSE 0

\* _resolve_next_step_id without its options branch.
ResolveNextStepId_defaultOnly(current_step, decision) == current_step.next_step

\* _resolve_next_step_id returning nothing when a choice step's options
\* are not matched.
ResolveNextStepId_noFallback(current_step, decision) ==
    IF current_step.type = "ask_choice" /\ current_step.options # <<>>
    THEN IF SelectedOption(current_step.options, decision.result_value) # 0
         THEN current_step.options[
                  SelectedOption(current_step.options, decision.result_value)].next_step_id
         ELSE None
    ELSE current_step.next_step

\* WorkflowEngine._resolve_next_step_id
ResolveNextStepId(current_step, decision) ==
    IF current_step.type = "ask_choice" /\ current_step.options # <<>>
         /\ SelectedOption(current_step.options, decision.result_value) # 0
    THEN current_step.options[
             SelectedOption(current_step.options, decision.result_value)].next_step_id
    ELSE current_step.next_step

WorkflowResult(source, summary) ==
    [source_workflow_id |-> source, status |-> "SUCCESS", summary |-> summary,
     slots_collected |-> <<>>]

\* _pop_frame delivering a result without the child's last reply.
PopFrame_noSummary(session, completed_workflow, final_decision) ==
    LET rest == SubSeq(session.stack, 1, Len(session.stack) - 1)
    IN  IF rest # <<>>
        THEN [session EXCEPT !.stack =
                 [rest EXCEPT ![Len(rest)].pending_child_result =
                     <<WorkflowResult(completed_workflow.name, <<>>)>>],
                 !.calls = SubSeq(@, 1, Len(@) - 1)]
        ELSE [session EXCEPT !.stack = rest]

\* WorkflowEngine._pop_frame
PopFrame(session, completed_workflow, final_decision) ==
    LET rest == SubSeq(session.stack, 1, Len(session.stack) - 1)
    IN  IF rest # <<>>
        THEN [session EXCEPT !.stack =
                 [rest EXCEPT ![Len(rest)].pending_child_result =
                     <<WorkflowResult(completed_workflow.name,
                                      final_decision.reply_to_user)>>],
                 !.calls = SubSeq(@, 1, Len(@) - 1)]
        ELSE [session EXCEPT !.stack = rest]

\* _push_child_workflow assigning the child frame to the top slot.
PushChildWorkflow_replaceTop(session, target_workflow_id) ==
    [session EXCEPT !.stack[Len(session.stack)] =
        Frame(target_workflow_id, Workflows[target_workflow_id].start_step)]

\* _push_child_workflow leaving a placeholder result in the caller's
\* mailbox.
PushChildWorkflow_markParent(session, target_workflow_id) ==
    [session EXCEPT
        !.stack =
            Append([@ EXCEPT ![Len(@)].pending_child_result =
                        <<WorkflowResult(target_workflow_id, <<>>)>>],
                   Frame(target_workflow_id, Workflows[target_workflow_id].start_step)),
        !.calls = Append(@, Pointer(ActiveFrame(session)))]

\* WorkflowEngine._push_child_workflow
PushChildWorkflow(session, target_workflow_id) ==
    [session EXCEPT
        !.stack =
            Append(@, Frame(target_workflow_id, Workflows[target_workflow_id].start_step)),
        !.calls = Append(@, Pointer(ActiveFrame(session)))]

\* The step pointer written to the bottom frame, stack[0].
AdvanceFrame_bottom(session, next_step_id) ==
    [session EXCEPT !.stack[1].current_step_id = next_step_id]

\* The step pointer written to the active frame and to its caller.
AdvanceFrame_withCaller(session, next_step_id) ==
    [session EXCEPT !.stack =
        [i \in 1..Len(@) |->
            IF i >= Len(@) - 1 THEN [@[i] EXCEPT !.current_step_id = next_step_id]
            ELSE @[i]]]

\* frame.current_step_id = next_step_id, on the active frame
AdvanceFrame(session, next_step_id) ==
    [session EXCEPT !.stack[Len(session.stack)].current_step_id = next_step_id]

\* What _apply_decision hands back: error is "none" when it returns.
Applied(error, session, transition) ==
    [error |-> error, session |-> session, transition |-> transition]

\* The COMPLETE branch testing the step type against "END", which no
\* StepType value equals.
ApplyComplete_endTypo(session, decision) ==
    LET workflow     == ContextWorkflow(session)
        current_step == ContextStep(session)
        next_step_id == ResolveNextStepId(current_step, decision)
    IN  IF current_step.type = "END"
        THEN Applied("none", PopFrame(session, workflow, decision), "POP")
        ELSE IF next_step_id = None
        THEN Applied("no_next_step", session, "NONE")
        ELSE IF next_step_id \notin DOMAIN workflow.steps
        THEN Applied("missing_next_step", session, "NONE")
        ELSE Applied("none", AdvanceFrame(session, next_step_id), "ADVANCE")

\* The COMPLETE branch popping at once when the resolved next step is END.
ApplyComplete_popOnEndNext(session, decision) ==
    LET workflow     == ContextWorkflow(session)
        current_step == ContextStep(session)
        next_step_id == ResolveNextStepId(current_step, decision)
    IN  IF current_step.type = "end"
        THEN Applied("none", PopFrame(session, workflow, decision), "POP")
        ELSE IF next_step_id = None
        THEN Applied("no_next_step", session, "NONE")
        ELSE IF next_step_id \notin DOMAIN workflow.steps
        THEN Applied("missing_next_step", session, "NONE")
        ELSE IF workflow.steps[next_step_id].type = "end"
        THEN Applied("none", PopFrame(session, workflow, decision), "POP")
        ELSE Applied("none", AdvanceFrame(session, next_step_id), "ADVANCE")

\* The COMPLETE branch without the check that the next step exists.
ApplyComplete_noStepCheck(session, decision) ==
    LET workflow     == ContextWorkflow(session)
        current_step == ContextStep(session)
        next_step_id == ResolveNextStepId(current_step, decision)
    IN  IF current_step.type = "end"
        THEN Applied("none", PopFrame(session, workflow, decision), "POP")
        ELSE IF next_step_id = None
        THEN Applied("no_next_step", session, "NONE")
        ELSE Applied("none", AdvanceFrame(session, next_step_id), "ADVANCE")

\* The COMPLETE branch storing the extracted value of an ask_slot step in
\* session.slots before it advances.
ApplyComplete_storesSlot(session, decision) ==
    LET workflow     == ContextWorkflow(session)
        current_step == ContextStep(session)
        next_step_id == ResolveNextStepId(current_step, decision)
        collected    == IF current_step.slot_name # None /\ decision.result_value # None
                        THEN [session EXCEPT !.slots =
                                 <<current_step.slot_name, decision.result_value>>]
                        ELSE session
    IN  IF current_step.type = "end"
        THEN Applied("none", PopFrame(session, workflow, decision), "POP")
        ELSE IF next_step_id = None
        THEN Applied("no_next_step", session, "NONE")
        ELSE IF next_step_id \notin DOMAIN workflow.steps
        THEN Applied("missing_next_step", session, "NONE")
        ELSE Applied("none", AdvanceFrame(collected, next_step_id), "ADVANCE")

\* WorkflowEngine._apply_decision, the COMPLETE branch.  The frame and the
\* workflow it is given are those of the execution context, the top of
\* the stack.
ApplyComplete(session, decision) ==
    LET workflow     == ContextWorkflow(session)
        current_step == ContextStep(session)
        next_step_id == ResolveNextStepId(current_step, decision)
    IN  IF current_step.type = "end"
        THEN Applied("none", PopFrame(session, workflow, decision), "POP")
        ELSE IF next_step_id = None
        THEN Applied("no_next_step", session, "NONE")
        ELSE IF next_step_id \notin DOMAIN workflow.steps
        THEN Applied("missing_next_step", session, "NONE")
        ELSE Applied("none", AdvanceFrame(session, next_step_id), "ADVANCE")

\* The CALL_WORKFLOW branch without the workflow_exists check: for an
\* unknown target get_workflow raises inside _push_child_workflow.
ApplyCallWorkflow_noExistsCheck(session, decision) ==
    IF decision.result_value \in {None, ""}
    THEN Applied("none", session, "HOLD")
    ELSE IF ~WorkflowExists(decision.result_value)
    THEN Applied("workflow_not_found", session, "NONE")
    ELSE Applied("none", PushChildWorkflow(session, decision.result_value), "PUSH")

\* WorkflowEngine._apply_decision, the CALL_WORKFLOW branch.
ApplyCallWorkflow(session, decision) ==
    IF decision.result_value \in {None, ""}
    THEN Applied("none", session, "HOLD")
    ELSE IF ~WorkflowExists(decision.result_value)
    THEN Applied("none", session, "HOLD")
    ELSE Applied("none", PushChildWorkflow(session, decision.result_value), "PUSH")

\* _apply_decision abandoning the workflow on GIVE_UP.
ApplyDecision_giveUpPops(session, decision) ==
    IF decision.status = "IN_PROGRESS"
    THEN Applied("none", session, "HOLD")
    ELSE IF decision.status = "GIVE_UP"
    THEN Applied("none", PopFrame(session, ContextWorkflow(session), decision), "POP")
    ELSE IF decision.status = "COMPLETE"
    THEN ApplyComplete(session, decision)
    ELSE IF decision.status = "CALL_WORKFLOW"
    THEN ApplyCallWorkflow(session, decision)
    ELSE Applied("none", session, "HOLD")

\* WorkflowEngine._apply_decision
ApplyDecision(session, decision) ==
    IF decision.status \in {"IN_PROGRESS", "GIVE_UP"}
    THEN Applied("none", session, "HOLD")
    ELSE IF decision.status = "COMPLETE"
    THEN ApplyComplete(session, decision)
    ELSE IF decision.status = "CALL_WORKFLOW"
    THEN ApplyCallWorkflow(session, decision)
    ELSE Applied("none", session, "HOLD")

\* handle_message leaving the mailbox of the active frame as it is.
ClearMailbox_keep(session) == session

\* session.active_frame.pending_child_result = None, when there is a frame
ClearMailbox(session) ==
    IF session.stack = <<>> THEN session
    ELSE [session EXCEPT !.stack[Len(session.stack)].pending_child_result = NoResult]

\* _update_history appending the reply before the user's message.
UpdateHistory_replyFirst(session, user_input, reply) ==
    [session EXCEPT !.history =
        @ \o <<Message("assistant", reply)>>
          \o (IF user_input # "" THEN <<Message("user", <<user_input>>)>> ELSE <<>>)]

\* _update_history without the test of user_input.
UpdateHistory_alwaysUser(session, user_input, reply) ==
    [session EXCEPT !.history =
        @ \o <<Message("user", <<user_input>>)>> \o <<Message("assistant", reply)>>]

\* WorkflowEngine._update_history; message content is a sequence of text pieces.
UpdateHistory(session, user_input, reply) ==
    [session EXCEPT !.history =
        @ \o (IF user_input # "" THEN <<Message("user", <<user_input>>)>> ELSE <<>>)
          \o <<Message("assistant", reply)>>]

\* WorkflowEngine._find_workflow_link: the target of the matching link, or None.
FindWorkflowLink(step, target_workflow_id) ==
    IF target_workflow_id \in {None, ""} \/ step.suggested_links = <<>>
    THEN None
    ELSE IF \E i \in 1..Len(step.suggested_links) :
                step.suggested_links[i] = target_workflow_id
    THEN target_workflow_id
    ELSE None

TransitionMeta(transition, reasoning, link, child_result) ==
    [transition_type |-> transition, reasoning |-> reasoning,
     workflow_link |-> link, child_result |-> child_result]

NoMeta == TransitionMeta("NONE", "", None, NoResult)

\* ------------------------------------------------------------- narrator
\* Rendering the step-introduction prompt.  The Python builder raises on a
\* POP without child_result; a Jinja2 template renders the missing value
\* as empty text.
IntroductionRenders(builder, meta) ==
    ~(builder = "python" /\ meta.transition_type = "POP" /\ meta.child_result = NoResult)

\* The except branch replying without the goal of the new step.
NarratorFallback_noGoal(to_step) ==
    StepDecision(<<"Let's proceed. ">>, "IN_PROGRESS", None, "Error")

\* introduce_step, the except branch.
NarratorFallback(to_step) ==
    StepDecision(<<"Let's proceed. ", to_step.goal>>, "IN_PROGRESS", None, "Error")

\* What the LLM may answer to the narrator's request.
NarratorAnswers ==
    { StepDecision(<<"intro">>, st, None, "introduced") : st \in {"IN_PROGRESS", "COMPLETE"} }

\* ------------------------------------------------------- session store
\* The store holds one entry; present is whether get() finds it.
NoEntry == [present |-> FALSE, state |-> EmptySession]

\* The SessionState object a call works on.  InMemorySessionRepository.get
\* hands out the stored object itself, PostgresSessionRepository.get a
\* fresh copy parsed from the row.
Local(p) == IF repo = "memory" THEN store.state ELSE req[p].session

\* The session written through to the store as soon as the engine has
\* changed it, whichever the store.
Mutated_saved(s) == [store EXCEPT !.state = s]

\* The store after the call's object has taken value s, no save yet.
Mutated(s) == IF repo = "memory" THEN [store EXCEPT !.state = s] ELSE store

LocalCopy(s) == IF repo = "memory" THEN EmptySession ELSE s

\* SessionState.model_dump(mode="json"): the JSON document written to the
\* state column.  A list is a JSON array, an absent result is JSON null,
\* a result is a JSON object.
JsonNull == [json |-> "null"]

ModelDump(session) ==
    [stack |-> [i \in 1..Len(session.stack) |->
                  [workflow_name |-> session.stack[i].workflow_name,
                   current_step_id |-> session.stack[i].current_step_id,
                   pending_child_result |->
                       IF session.stack[i].pending_child_result = NoResult
                       THEN JsonNull
                       ELSE [json |-> "object",
                             value |-> session.stack[i].pending_child_result[1]]]],
     slots |-> session.slots, calls |-> session.calls,
     history |-> [i \in 1..Len(session.history) |->
                    [role |-> session.history[i].role,
                     content |-> session.history[i].content]]]

\* Parsing the document with the frames in reverse order.
Rehydrate_reversedStack(state) ==
    [stack |-> [i \in 1..Len(state.stack) |->
                  [workflow_name |-> state.stack[Len(state.stack) + 1 - i].workflow_name,
                   current_step_id |-> state.stack[Len(state.stack) + 1 - i].current_step_id,
                   pending_child_result |->
                       IF state.stack[Len(state.stack) + 1 - i].pending_child_result.json
                            = "null"
                       THEN NoResult
                       ELSE <<state.stack[Len(state.stack) + 1 - i]
                                  .pending_child_result.value>>]],
     slots |-> state.slots, calls |-> state.calls,
     history |-> [i \in 1..Len(state.history) |->
                    Message(state.history[i].role, state.history[i].content)]]

\* SessionState(**result.state): the document parsed back into the model.
Rehydrate(state) ==
    [stack |-> [i \in 1..Len(state.stack) |->
                  [workflow_name |-> state.stack[i].workflow_name,
                   current_step_id |-> state.stack[i].current_step_id,
                   pending_child_result |->
                       IF state.stack[i].pending_child_result.json = "null"
                       THEN NoResult
                       ELSE <<state.stack[i].pending_child_result.value>>]],
     slots |-> state.slots, calls |-> state.calls,
     history |-> [i \in 1..Len(state.history) |->
                    Message(state.history[i].role, state.history[i].content)]]

\* SessionRepository.save: does it raise, and the store afterwards.
SaveRaises == repo = "postgres" /\ ~store.present

\* The in-memory store keeps the object; the database keeps the dumped
\* document, which get parses: state is what get returns.
Saved(s) ==
    [present |-> TRUE,
     state |-> IF repo = "postgres" THEN Rehydrate(ModelDump(s)) ELSE s]

\* ------------------------------------------------------------- requests
IdleRequest ==
    [pc |-> "idle", text |-> "", session |-> EmptySession,
     loaded |-> EmptySession, cold |-> FALSE, match |-> None, after_pop |-> FALSE,
     after_root_pop |-> FALSE, entered |-> FALSE, pre |-> EmptySession, post |-> EmptySession,
     prompt |-> <<>>, executor_llm |-> "none", decision |-> NoDecision,
     transition |-> "NONE", mutated |-> EmptySession,
     from_step |-> None, intro_from |-> None, to_step |-> None, meta |-> NoMeta, narrator_llm |-> "none",
     final |-> NoDecision, outcome |-> "none", saved |-> FALSE]

\* The call answering normally whatever happened in it.
Finished_swallowed(r, s, outcome, saved) ==
    [r EXCEPT !.pc = "done", !.session = EmptySession, !.post = s,
              !.outcome = "ok", !.saved = saved]

\* The call has ended (returned or raised) with the object in state s.
Finished(r, s, outcome, saved) ==
    [r EXCEPT !.pc = "done", !.session = EmptySession, !.post = s,
              !.outcome = outcome, !.saved = saved]

\* handle_message recording the input in the history before it looks at
\* the stack.
EnterEngine_historyFirst(r, s) ==
    IF ContextError(s) # "none"
    THEN Finished([r EXCEPT !.entered = TRUE, !.pre = s],
                  UpdateHistory(s, r.text, <<>>), ContextError(s), FALSE)
    ELSE [r EXCEPT !.pc = "executor", !.session = LocalCopy(s),
                   !.entered = TRUE, !.pre = s,
                   !.from_step = ContextStep(s).id,
                   !.prompt = BuildSystemPrompt(ContextStep(s), ActiveFrame(s))]

\* WorkflowEngine.handle_message up to the executor's LLM call.
EnterEngine(r, s) ==
    IF ContextError(s) # "none"
    THEN Finished([r EXCEPT !.entered = TRUE, !.pre = s], s, ContextError(s), FALSE)
    ELSE [r EXCEPT !.pc = "executor", !.session = LocalCopy(s),
                   !.entered = TRUE, !.pre = s,
                   !.from_step = ContextStep(s).id,
                   !.prompt = BuildSystemPrompt(ContextStep(s), ActiveFrame(s))]

\* The last call of this client popped a child off a parent, and the
\* session loaded now is as that call left it.
IsAfterPop(last, s) ==
    /\ last.pc = "done"
    /\ last.transition = "POP"
    /\ last.post.stack # <<>>
    /\ Len(s.stack) = Len(last.post.stack)
    /\ \A i \in 1..Len(s.stack) :
          /\ s.stack[i].workflow_name = last.post.stack[i].workflow_name
          /\ s.stack[i].current_step_id = last.post.stack[i].current_step_id

\* The last call of this client popped the root workflow and saved the
\* session with its empty stack.
IsAfterRootPop(last) ==
    /\ last.pc = "done"
    /\ last.transition = "POP"
    /\ last.outcome = "ok"
    /\ last.post.stack = <<>>

\* SessionRepository.create
CreateSession ==
    /\ ~created
    /\ created' = TRUE
    /\ store' = Saved(EmptySession)
    /\ UNCHANGED <<repo, templating, req, turns>>

\* SessionRepository.delete.  The in-memory store drops its dictionary
\* entry while calls in flight keep the SessionState object; the database
\* deletes the row.
DeleteSession ==
    /\ store.present
    /\ store' = IF repo = "memory" THEN [store EXCEPT !.present = FALSE] ELSE NoEntry
    /\ UNCHANGED <<repo, templating, created, req, turns>>

\* process_message creating the session when get finds none.
StartTurn_createOnMiss(p, text) ==
    /\ req[p].pc \in {"idle", "done"}
    /\ turns < MaxTurns
    /\ turns' = turns + 1
    /\ LET entry == IF store.present THEN store ELSE Saved(EmptySession)
           r == [IdleRequest EXCEPT !.text = text, !.loaded = entry.state,
                     !.after_pop = IsAfterPop(req[p], entry.state)]
       IN  /\ store' = entry
           /\ req' = [req EXCEPT ![p] =
                  IF entry.state.stack = <<>>
                  THEN [r EXCEPT !.pc = "router", !.cold = TRUE,
                                 !.session = LocalCopy(entry.state)]
                  ELSE EnterEngine(r, entry.state)]
    /\ UNCHANGED <<repo, templating, created>>

\* ChatService.process_message from its start to its first await.
BeginTurn(p, text) ==
    /\ req[p].pc \in {"idle", "done"}
    /\ LET r == [IdleRequest EXCEPT !.text = text,
                     !.loaded = IF store.present THEN store.state ELSE EmptySession,
                     !.after_pop = IsAfterPop(req[p], store.state),
                     !.after_root_pop = IsAfterRootPop(req[p])]
       IN  req' = [req EXCEPT ![p] =
              IF ~store.present
              THEN Finished(r, EmptySession, "session_not_found", FALSE)
              ELSE IF store.state.stack = <<>>
              THEN [r EXCEPT !.pc = "router", !.cold = TRUE,
                             !.session = LocalCopy(store.state)]
              ELSE EnterEngine(r, store.state)]
    /\ UNCHANGED <<repo, templating, store, created>>

\* One more process_message call of client p, while calls are counted.
StartTurn(p, text) ==
    /\ turns < MaxTurns
    /\ turns' = turns + 1
    /\ BeginTurn(p, text)

\* The reply process_message returns when the stack is still empty
\* after the cold start.
NoMatchReply ==
    StepDecision(<<"I'm sorry, I couldn't find a specific troubleshooting guide">>,
                 "FAILED", None, "")

\* _handle_cold_start pushing a frame of the default guide on a miss.
HandleColdStart_pushOnMiss(session, match) ==
    LET id == IF match = None THEN "troubleshoot_lukewarm_water" ELSE match
    IN  [session EXCEPT !.stack =
            Append(@, Frame(Workflows[id].name, Workflows[id].start_step))]

\* _handle_cold_start starting the conversation afresh on a match.
HandleColdStart_freshHistory(session, match) ==
    IF match = None THEN session
    ELSE [session EXCEPT
            !.stack = Append(@, Frame(Workflows[match].name, Workflows[match].start_step)),
            !.history = <<>>]

\* _handle_cold_start pushing the initial frame twice.
HandleColdStart_pushTwice(session, match) ==
    IF match = None THEN session
    ELSE [session EXCEPT !.stack =
            @ \o <<Frame(Workflows[match].name, Workflows[match].start_step),
                   Frame(Workflows[match].name, Workflows[match].start_step)>>]

\* ChatService._handle_cold_start after router.find_best_workflow answered
\* with a workflow the store holds, or with no match: the session after it.
HandleColdStart(session, match) ==
    IF match = None THEN session
    ELSE [session EXCEPT !.stack =
            Append(@, Frame(Workflows[match].name, Workflows[match].start_step))]

\* ChatService._handle_cold_start after router.find_best_workflow answered,
\* and process_message up to the executor's LLM call.
RouterReturns(p, match) ==
    /\ req[p].pc = "router"
    /\ LET s == Local(p)
           r == [req[p] EXCEPT !.match = match]
       IN  IF match # None /\ ~WorkflowExists(match)
           THEN /\ req' = [req EXCEPT ![p] = Finished(r, s, "workflow_not_found", FALSE)]
                /\ store' = store
           ELSE IF HandleColdStart(s, match).stack = <<>>
           THEN /\ req' = [req EXCEPT ![p] =
                            Finished([r EXCEPT !.final = NoMatchReply], s,
                                     "no_match", FALSE)]
                /\ store' = store
           ELSE /\ req' = [req EXCEPT ![p] = EnterEngine(r, HandleColdStart(s, match))]
                /\ store' = Mutated(HandleColdStart(s, match))
    /\ UNCHANGED <<repo, templating, created, turns>>

\* ChatService.process_message step 4 and its return, with the object in
\* state s2 after the engine returned final.
SaveAndReturn(p, r, s2) ==
    IF SaveRaises
    THEN /\ req' = [req EXCEPT ![p] = Finished(r, s2, "session_not_in_db", FALSE)]
         /\ store' = Mutated(s2)
    ELSE /\ req' = [req EXCEPT ![p] = Finished(r, s2, "ok", TRUE)]
         /\ store' = Saved(s2)

\* The step to introduce looked up in the session as it was at entry.
IntroducedStep_atEntry(entry, mutated) == ContextStep(entry)

\* WorkflowEngine._generate_transition_decision: next_step, the step of
\* the execution context read from the session after the mutation.
IntroducedStep(entry, mutated) == ContextStep(mutated)

\* No introduction after a push: the executor's reply is returned.
NeedsIntroduction_notOnPush(transition, session) ==
    ~(transition \in {"HOLD", "PUSH"} \/ session.stack = <<>>)

\* The introduction requested on every turn that leaves a frame.
NeedsIntroduction_onHold(transition, session) ==
    session.stack # <<>>

\* WorkflowEngine.handle_message: whether the turn's reply is an
\* introduction of the new step (the turn neither held nor ended the
\* session).
NeedsIntroduction(transition, session) ==
    ~(transition = "HOLD" \/ session.stack = <<>>)

\* WorkflowEngine.handle_message from the executor's answer on: the
\* decision is applied, the mailbox cleared, and either the turn ends
\* (history, save) or the narrator's request is prepared.  llm_ok is
\* whether the LLM call returned a parsed decision.
ExecutorReturns(p, answer, llm_ok) ==
    /\ req[p].pc = "executor"
    /\ LET s        == Local(p)
           decision == IF llm_ok THEN answer ELSE ExecutorFallback
           applied  == ApplyDecision(s, decision)
           r        == [req[p] EXCEPT !.decision = decision,
                                      !.executor_llm = IF llm_ok THEN "ok" ELSE "failed",
                                      !.transition = applied.transition,
                                      !.mutated = applied.session]
           s1       == ClearMailbox(applied.session)
           previous_step == ContextStep(req[p].pre)
           meta     == TransitionMeta(applied.transition, decision.reasoning,
                           FindWorkflowLink(previous_step, decision.result_value),
                           ActiveFrame(s1).pending_child_result)
       IN  IF applied.error # "none"
           THEN /\ req' = [req EXCEPT ![p] = Finished(r, s, applied.error, FALSE)]
                /\ store' = store
           ELSE IF ~NeedsIntroduction(applied.transition, s1)
           THEN SaveAndReturn(p, [r EXCEPT !.final = decision],
                              UpdateHistory(s1, req[p].text, decision.reply_to_user))
           ELSE IF ContextError(s1) # "none"
           THEN /\ req' = [req EXCEPT ![p] = Finished(r, s1, ContextError(s1), FALSE)]
                /\ store' = Mutated(s1)
           ELSE IF ~IntroductionRenders(templating, meta)
           THEN /\ req' = [req EXCEPT ![p] =
                            Finished([r EXCEPT !.meta = meta,
                                               !.intro_from = previous_step.id,
                                               !.to_step = IntroducedStep(req[p].pre, s1).id],
                                     s1, "pop_requires_child_result", FALSE)]
                /\ store' = Mutated(s1)
           ELSE /\ req' = [req EXCEPT ![p] =
                            [r EXCEPT !.pc = "narrator", !.session = LocalCopy(s1),
                                      !.meta = meta, !.intro_from = previous_step.id,
                                      !.to_step = IntroducedStep(req[p].pre, s1).id]]
                /\ store' = Mutated(s1)
    /\ UNCHANGED <<repo, templating, created, turns>>

\* introduce_step from the narrator's answer on, then the rest of
\* handle_message and process_message.
NarratorReturns(p, answer, llm_ok) ==
    /\ req[p].pc = "narrator"
    /\ LET s     == Local(p)
           final == IF llm_ok THEN answer ELSE NarratorFallback(ContextStep(s))
       IN  SaveAndReturn(p, [req[p] EXCEPT !.final = final,
                                !.narrator_llm = IF llm_ok THEN "ok" ELSE "failed"],
                         UpdateHistory(s, req[p].text, final.reply_to_user))
    /\ UNCHANGED <<repo, templating, created, turns>>

\* A row of the sessions table written by an earlier turn: a cold start
\* into troubleshoot_lukewarm_water with input "hi" whose executor answered
\* CALL_WORKFLOW drain_water_heater and whose narrator answered.
ResumedSession ==
    [stack |-> <<Frame("troubleshoot_lukewarm_water", "step_01_thermostat"),
                 Frame("drain_water_heater", "drain_step_01_power_off")>>,
     slots |-> <<>>,
     calls |-> << <<"troubleshoot_lukewarm_water", "step_01_thermostat">> >>,
     history |-> <<Message("user", <<"hi">>), Message("assistant", <<"intro">>)>>]

\* The services as wired, over an empty session store or, for the
\* database, one that holds the row of an earlier turn.
Init ==
    /\ repo \in {"memory", "postgres"}
    /\ templating \in {"python", "jinja2"}
    /\ store \in {NoEntry} \cup (IF repo = "postgres" THEN {Saved(ResumedSession)} ELSE {})
    /\ created = store.present
    /\ req = [p \in AllClients |-> IdleRequest]
    /\ turns = 0

Next ==
    \/ CreateSession
    \/ \E p \in ClientIds, text \in UserTexts : StartTurn(p, text)
    \/ \E p \in ClientIds, match \in RouterResults : RouterReturns(p, match)
    \/ \E p \in ClientIds, answer \in ExecutorAnswers, llm_ok \in BOOLEAN :
          ExecutorReturns(p, answer, llm_ok)
    \/ \E p \in ClientIds, answer \in NarratorAnswers, llm_ok \in BOOLEAN :
          NarratorReturns(p, answer, llm_ok)

Spec == Init /\ [][Next]_vars

\* ------------------------------------------------ the engine by itself
\* WorkflowEngine.handle_message called by a caller that, unlike
\* process_message, hands over the loaded session as it is, whatever its
\* stack, and saves it afterwards.
CallEngine(p, text) ==
    /\ req[p].pc \in {"idle", "done"}
    /\ turns < MaxTurns
    /\ store.present
    /\ turns' = turns + 1
    /\ req' = [req EXCEPT ![p] =
                 EnterEngine([IdleRequest EXCEPT !.text = text,
                                  !.loaded = store.state,
                                  !.after_pop = IsAfterPop(req[p], store.state)],
                             store.state)]
    /\ UNCHANGED <<repo, templating, store, created>>

\* A row of the sessions table whose top frame names a workflow that the
\* workflows table held when the row was written and no longer holds.
OrphanedSession ==
    [stack |-> <<Frame("troubleshoot_lukewarm_water", "step_04_sediment"),
                 Frame("retired_guide", "retired_step_01")>>,
     slots |-> <<>>,
     calls |-> << <<"troubleshoot_lukewarm_water", "step_04_sediment">> >>,
     history |-> <<Message("user", <<"hi">>), Message("assistant", <<"intro">>)>>]

InitEngine ==
    /\ repo \in {"memory", "postgres"}
    /\ templating = "jinja2"
    /\ store \in {NoEntry} \cup (IF repo = "postgres"
                                 THEN {Saved(ResumedSession), Saved(OrphanedSession)}
                                 ELSE {})
    /\ created = store.present
    /\ req = [p \in AllClients |-> IdleRequest]
    /\ turns = 0

NextEngine ==
    \/ Next
    \/ \E p \in ClientIds, text \in UserTexts : CallEngine(p, text)

SpecEngine == InitEngine /\ [][NextEngine]_vars

\* ------------------------------------------- shared session, deletion
\* Nothing in process_message or in the repositories keeps a second call on
\* the same session_id from starting while a first one is suspended in an
\* LLM call, and delete may run at any time.  Two calls in flight are
\* followed for the database store, where each call works on its own copy
\* of the row; with the in-memory store one call is followed.
Callers == IF repo = "memory" THEN ClientIds ELSE AllClients

\* Each client sends its own text.
ClientTexts == (1 :> "hi") @@ (2 :> "hello")

SharedRouterResults == {"troubleshoot_lukewarm_water", None}

SharedExecutorAnswers ==
    { StepDecision(<<"reply">>, "IN_PROGRESS", None, "because"),
      StepDecision(<<"reply">>, "COMPLETE", "was_correct", "because") }

SharedNarratorAnswers == { StepDecision(<<"intro">>, "IN_PROGRESS", None, "introduced") }

InitShared == Init /\ templating = "jinja2" /\ store = NoEntry

NextShared ==
    \/ CreateSession
    \/ DeleteSession
    \/ \E p \in Callers : StartTurn(p, ClientTexts[p])
    \/ \E p \in Callers, match \in SharedRouterResults : RouterReturns(p, match)
    \/ \E p \in Callers, answer \in SharedExecutorAnswers, llm_ok \in BOOLEAN :
          ExecutorReturns(p, answer, llm_ok)
    \/ \E p \in Callers, answer \in SharedNarratorAnswers, llm_ok \in BOOLEAN :
          NarratorReturns(p, answer, llm_ok)

SpecShared == InitShared /\ [][NextShared]_vars

\* ------------------------------------------------------------ progress
\* What the event loop guarantees: a call suspended in the router is
\* resumed, since MockWorkflowRouter.find_best_workflow returns at once.
\* A call suspended in llm.generate_structured_output is resumed when the
\* provider answers or raises; run_turn and introduce_step await it with
\* no deadline of their own, so nothing obliges that step to happen.
RouterAnswers == \E p \in Callers, match \in SharedRouterResults : RouterReturns(p, match)

SpecLive == InitShared /\ [][NextShared]_vars /\ WF_vars(RouterAnswers)

\* ------------------------------------------------- running to the end
\* A conversation in which the executor's LLM answers COMPLETE on every
\* turn, with whatever result_value, on workflows whose step graph is
\* acyclic and whose edges all resolve (troubleshoot_lukewarm_water,
\* drain_water_heater).  The user keeps sending messages while a workflow
\* is active; calls are not counted, the conversation ends by itself.
\* The session a cold start into troubleshoot_lukewarm_water left when the
\* executor held on the first step.
HeldSession ==
    [stack |-> <<Frame("troubleshoot_lukewarm_water", "step_01_thermostat")>>,
     slots |-> <<>>, calls |-> <<>>,
     history |-> <<Message("user", <<"hi">>), Message("assistant", <<"reply">>)>>]

CompleteAnswers ==
    { StepDecision(<<"reply">>, "COMPLETE", rv, "because") : rv \in CompleteValues }

\* process_message called on a session with an active workflow.
ProgressTurn(p) ==
    /\ store.present
    /\ store.state.stack # <<>>
    /\ BeginTurn(p, "")
    /\ UNCHANGED turns

InitProgress ==
    /\ repo \in {"memory", "postgres"}
    /\ templating = "jinja2"
    /\ store \in {Saved(HeldSession), Saved(ResumedSession)}
    /\ created = TRUE
    /\ req = [p \in AllClients |-> IdleRequest]
    /\ turns = 0

NextProgress ==
    \/ \E p \in ClientIds : ProgressTurn(p)
    \/ \E p \in ClientIds, answer \in CompleteAnswers : ExecutorReturns(p, answer, TRUE)
    \/ \E p \in ClientIds, answer \in NarratorAnswers, llm_ok \in BOOLEAN :
          NarratorReturns(p, answer, llm_ok)

\* The hypothesis of the progress property: turns keep coming and every
\* LLM call is answered.
SpecProgress == InitProgress /\ [][NextProgress]_vars /\ WF_vars(NextProgress)

\* ======================================================== properties
\* handle_message has returned a decision in client p's last call.
EngineReturned(p) ==
    req[p].pc = "done" /\ req[p].outcome \in {"ok", "session_not_in_db"}

SamePointers(a, b, n) == \A i \in 1..n : Pointer(a[i]) = Pointer(b[i])

HoldRelation(a, b) == Len(b) = Len(a) /\ SamePointers(a, b, Len(a))

AdvanceRelation(a, b) ==
    /\ Len(a) >= 1
    /\ Len(b) = Len(a)
    /\ SamePointers(a, b, Len(a) - 1)
    /\ b[Len(b)].workflow_name = a[Len(a)].workflow_name
    /\ b[Len(b)].current_step_id # a[Len(a)].current_step_id

PushRelation(a, b) == Len(b) = Len(a) + 1 /\ SamePointers(a, b, Len(a))

PopRelation(a, b) == Len(a) >= 1 /\ Len(b) = Len(a) - 1 /\ SamePointers(a, b, Len(b))

RelationsHolding(a, b) ==
    { t \in {"HOLD", "ADVANCE", "PUSH", "POP"} :
        \/ t = "HOLD" /\ HoldRelation(a, b)
        \/ t = "ADVANCE" /\ AdvanceRelation(a, b)
        \/ t = "PUSH" /\ PushRelation(a, b)
        \/ t = "POP" /\ PopRelation(a, b) }

\* C1: after every turn in which handle_message returned, the stack is
\* related to the stack at its entry by exactly one of the four
\* relations hold / advance / push / pop, namely the one of the turn's
\* transition; frames below the former top keep what they point at.
C1_OneStackRelation ==
    \A p \in ClientIds :
        EngineReturned(p) =>
            RelationsHolding(req[p].pre.stack, req[p].post.stack) = {req[p].transition}

C1_Witness ==
    \E p \in ClientIds :
        /\ EngineReturned(p)
        /\ req[p].transition = "ADVANCE"
        /\ Len(req[p].pre.stack) = 2

\* C2: after every turn in which handle_message returned, the history
\* is the history at entry, then the user message if the input is
\* non-empty, then one assistant message carrying the returned reply.
C2_HistoryAppend ==
    \A p \in ClientIds :
        EngineReturned(p) =>
            req[p].post.history =
                req[p].pre.history
                \o (IF req[p].text = "" THEN <<>>
                    ELSE <<[role |-> "user", content |-> <<req[p].text>>]>>)
                \o <<[role |-> "assistant", content |-> req[p].final.reply_to_user]>>

C2_Witness ==
    \E p \in ClientIds :
        /\ EngineReturned(p)
        /\ req[p].text = ""
        /\ Len(req[p].pre.history) >= 2
        /\ Len(req[p].post.history) = Len(req[p].pre.history) + 1

\* The step the executor ran on in client p's call.
FromStep(p) == ContextStep(req[p].pre)

\* The executor has been called in client p's call.
ExecutorCalled(p) == req[p].from_step # None

\* The executor's decision has been applied in client p's call.
DecisionApplied(p) == req[p].decision.status # "NONE"

\* The session object of client p's call as it is now.
SessionNow(p) == IF req[p].pc = "done" THEN req[p].post ELSE Local(p)

CompletedIntoEnd(p) ==
    /\ EngineReturned(p)
    /\ req[p].decision.status = "COMPLETE"
    /\ FromStep(p).type # "end"
    /\ \E id \in DOMAIN ContextWorkflow(req[p].pre).steps :
          /\ id = ResolveNextStepId(FromStep(p), req[p].decision)
          /\ ContextWorkflow(req[p].pre).steps[id].type = "end"

C5_ChoiceFollowsOption ==
    \A p \in ClientIds :
        ( /\ EngineReturned(p)
          /\ req[p].decision.status = "COMPLETE"
          /\ FromStep(p).type = "ask_choice" )
        => \A i \in 1..Len(FromStep(p).options) :
              ( /\ FromStep(p).options[i].id = req[p].decision.result_value
                /\ \A j \in 1..(i - 1) :
                      FromStep(p).options[j].id # req[p].decision.result_value
                /\ FromStep(p).options[i].next_step_id
                      \in DOMAIN ContextWorkflow(req[p].pre).steps )
              => /\ Len(req[p].post.stack) = Len(req[p].pre.stack)
                 /\ ActiveFrame(req[p].post).workflow_name
                       = ActiveFrame(req[p].pre).workflow_name
                 /\ ActiveFrame(req[p].post).current_step_id
                       = FromStep(p).options[i].next_step_id

C5_Witness ==
    \E p \in ClientIds :
        /\ EngineReturned(p)
        /\ req[p].decision.status = "COMPLETE"
        /\ req[p].from_step = "c_step_01"
        /\ req[p].decision.result_value = "yes"
        /\ FromStep(p).next_step # "c_step_02"
        /\ ActiveFrame(req[p].post).current_step_id = "c_step_02"

\* C6: when a turn that popped a child off a parent ends, the parent's
\* mailbox holds a result whose source is the popped child's workflow,
\* and the executor prompt of the parent's next turn has the mailbox block.
C6_MailboxDelivered ==
    \A p \in ClientIds :
        /\ ( /\ req[p].pc = "done"
             /\ req[p].transition = "POP"
             /\ req[p].post.stack # <<>> )
           => /\ ActiveFrame(req[p].post).pending_child_result # NoResult
              /\ ActiveFrame(req[p].post).pending_child_result[1].source_workflow_id
                    = ActiveFrame(req[p].pre).workflow_name
        /\ ExecutorCalled(p) /\ req[p].after_pop
              => HasBlock(req[p].prompt, "MAILBOX")

\* C7: a child result is seen by exactly one executor run on the parent:
\* the executor prompt has the mailbox block on the parent's first turn
\* after the pop, and on no other turn.
C7_ExactlyOnceDelivery ==
    \A p \in ClientIds :
        ExecutorCalled(p) => (HasBlock(req[p].prompt, "MAILBOX") <=> req[p].after_pop)

\* C8: once a CALL_WORKFLOW decision naming an existing workflow is
\* applied, the stack is the stack at entry with one frame (target, its
\* start_step, empty mailbox) on top, the frames below unchanged.
C8_PushAppendsStartFrame ==
    \A p \in ClientIds :
        ( /\ DecisionApplied(p)
          /\ req[p].decision.status = "CALL_WORKFLOW"
          /\ req[p].decision.result_value \in WorkflowIds )
        => /\ req[p].transition = "PUSH"
           /\ SessionNow(p).stack =
                 req[p].pre.stack
                 \o <<[workflow_name |-> req[p].decision.result_value,
                       current_step_id |->
                           Workflows[req[p].decision.result_value].start_step,
                       pending_child_result |-> NoResult]>>

C8_Witness ==
    \E p \in ClientIds :
        /\ EngineReturned(p)
        /\ req[p].decision.status = "CALL_WORKFLOW"
        /\ req[p].from_step = "step_04_sediment"
        /\ Len(req[p].post.stack) = 2
        /\ ActiveFrame(req[p].post).current_step_id = "drain_step_01_power_off"

\* C9: a CALL_WORKFLOW decision whose result_value is missing, empty or
\* names no workflow is a HOLD: the turn succeeds, the stack is as at
\* entry, the executor's decision is returned and the history grows as
\* on any HOLD.
C9_BadCallHolds ==
    \A p \in ClientIds :
        ( /\ DecisionApplied(p)
          /\ req[p].decision.status = "CALL_WORKFLOW"
          /\ req[p].decision.result_value \notin WorkflowIds )
        => /\ req[p].pc = "done"
           /\ req[p].outcome = "ok"
           /\ req[p].transition = "HOLD"
           /\ req[p].post.stack = req[p].pre.stack
           /\ req[p].final = req[p].decision
           /\ Len(req[p].post.history)
                 = Len(req[p].pre.history) + (IF req[p].text = "" THEN 1 ELSE 2)
           /\ req[p].post.history[Len(req[p].post.history)]
                 = [role |-> "assistant", content |-> req[p].decision.reply_to_user]

C9_Witness ==
    \E p \in ClientIds :
        /\ req[p].pc = "done"
        /\ req[p].decision.status = "CALL_WORKFLOW"
        /\ req[p].decision.result_value = "unknown_workflow"
        /\ req[p].pre.stack # <<>>

\* A COMPLETE decision on a non-END step resolved to a step id that the
\* workflow does not have, in client p's call.
CompletedIntoMissing(p) ==
    /\ req[p].pc = "done"
    /\ DecisionApplied(p)
    /\ req[p].decision.status = "COMPLETE"
    /\ FromStep(p).type # "end"
    /\ ResolveNextStepId(FromStep(p), req[p].decision) # None
    /\ ResolveNextStepId(FromStep(p), req[p].decision)
          \notin DOMAIN ContextWorkflow(req[p].pre).steps

\* C10: when a COMPLETE decision resolves to a step id the workflow does
\* not have, handle_message fails, the session object is exactly as at
\* its entry (stack, step pointers, mailboxes, history) and nothing is
\* saved: the row of the Postgres store is as the call loaded it.
C10_DanglingEdgeFails ==
    \A p \in ClientIds :
        CompletedIntoMissing(p) =>
            /\ req[p].outcome = "missing_next_step"
            /\ req[p].post = req[p].pre
            /\ ~req[p].saved
            /\ repo = "postgres" =>
                  /\ store.state.history = req[p].pre.history
                  /\ store.state.stack = IF req[p].cold THEN <<>> ELSE req[p].pre.stack

C10_Witness ==
    \E p \in ClientIds :
        /\ CompletedIntoMissing(p)
        /\ req[p].from_step = "c_step_01"
        /\ req[p].decision.result_value = "no"
        /\ ~req[p].cold

\* Client p's last process_message call raised.
TurnFailed(p) ==
    req[p].pc = "done" /\ req[p].outcome \notin {"ok", "no_match"}

\* C11: when process_message fails, whatever the point of failure, the
\* session the store's get returns afterwards has the stack (mailboxes
\* included) and the history that the call loaded; in-memory and
\* Postgres store alike.
C11_TurnAtomicity ==
    \A p \in ClientIds :
        TurnFailed(p) /\ store.present =>
            /\ store.state.stack = req[p].loaded.stack
            /\ store.state.history = req[p].loaded.history

\* Client p has loaded the session and has neither saved nor failed yet.
InFlight(p) == req[p].pc \in {"router", "executor", "narrator"}

\* C12: turns on one session are serialized: no call loads the session
\* between another call's load and that call's save, so two calls are
\* never both between load and save.
C12_TurnsSerialized ==
    \A p \in AllClients : \A q \in AllClients \ {p} : ~(InFlight(p) /\ InFlight(q))

IsPrefix(a, b) == Len(a) <= Len(b) /\ \A i \in 1..Len(a) : b[i] = a[i]

\* C13: the persisted history is append-only: the history a completed
\* turn persisted is a prefix of every later persisted history of the
\* session, also when calls interleave at their LLM calls.
C13_HistoryAppendOnly ==
    \A p \in AllClients :
        ( /\ req[p].pc = "done"
          /\ req[p].saved
          /\ store.present )
        => IsPrefix(req[p].post.history, store.state.history)

\* handle_message has been called in client p's call.
EngineEntered(p) == req[p].entered

\* C14: handle_message on a session with an empty stack fails at once: no
\* prompt is built and no LLM is called, the session object keeps its
\* stack and history, and nothing is saved.
C14_EmptyStackFails ==
    \A p \in ClientIds :
        EngineEntered(p) /\ req[p].pre.stack = <<>> =>
            /\ req[p].pc = "done"
            /\ req[p].outcome = "stack_empty"
            /\ ~ExecutorCalled(p)
            /\ req[p].prompt = <<>>
            /\ req[p].executor_llm = "none"
            /\ req[p].narrator_llm = "none"
            /\ req[p].post.stack = <<>>
            /\ req[p].post.history = req[p].pre.history
            /\ ~req[p].saved
            /\ store.state = req[p].loaded

C14_Witness ==
    \E p \in ClientIds :
        /\ EngineEntered(p)
        /\ req[p].pre.stack = <<>>
        /\ req[p].text = "hi"
        /\ req[p].pre.history # <<>>

\* C15: when the executor's LLM call fails, the executor's decision is
\* the fallback with status IN_PROGRESS, the transition is HOLD, the stack
\* (so the active frame's current_step_id) is as at entry, and the turn
\* succeeds with the fallback reply as the assistant message appended to
\* the history.
C15_ExecutorFailureHolds ==
    \A p \in ClientIds :
        req[p].executor_llm = "failed" =>
            /\ req[p].decision.status = "IN_PROGRESS"
            /\ req[p].decision.reply_to_user = <<"System Error. Please try again.">>
            /\ req[p].transition = "HOLD"
            /\ req[p].pc = "done"
            /\ req[p].outcome = "ok"
            /\ req[p].saved
            /\ req[p].final = req[p].decision
            /\ req[p].post.stack = req[p].pre.stack
            /\ req[p].post.history =
                  req[p].pre.history
                  \o (IF req[p].text = "" THEN <<>>
                      ELSE <<[role |-> "user", content |-> <<req[p].text>>]>>)
                  \o <<[role |-> "assistant",
                        content |-> <<"System Error. Please try again.">>]>>
            /\ store.state = req[p].post

C15_Witness ==
    \E p \in ClientIds :
        /\ req[p].executor_llm = "failed"
        /\ req[p].pc = "done"
        /\ req[p].text = "hi"
        /\ Len(req[p].pre.stack) = 2
        /\ FromStep(p).type = "end"

\* The narrator's LLM call failed in client p's call.
NarratorFailed(p) == req[p].narrator_llm = "failed"

\* C16: when the narrator's LLM call fails after an ADVANCE, a PUSH or a
\* POP onto a parent, the turn still succeeds: the stack is the one the
\* applied decision produced, the returned decision has status IN_PROGRESS
\* and the reply "Let's proceed. " followed by the goal of the new active
\* step, and that reply is the assistant message appended to the history.
C16_NarratorFailureProceeds ==
    \A p \in ClientIds :
        NarratorFailed(p) =>
            /\ req[p].transition \in {"ADVANCE", "PUSH", "POP"}
            /\ req[p].pc = "done"
            /\ req[p].outcome = "ok"
            /\ req[p].saved
            /\ req[p].post.stack # <<>>
            /\ req[p].post.stack
                  = ClearMailbox(ApplyDecision(req[p].pre, req[p].decision).session).stack
            /\ RelationsHolding(req[p].pre.stack, req[p].post.stack) = {req[p].transition}
            /\ req[p].final.status = "IN_PROGRESS"
            /\ req[p].final.reply_to_user
                  = <<"Let's proceed. ", ContextStep(req[p].post).goal>>
            /\ req[p].post.history[Len(req[p].post.history)]
                  = [role |-> "assistant", content |-> req[p].final.reply_to_user]
            /\ Len(req[p].post.history)
                  = Len(req[p].pre.history) + (IF req[p].text = "" THEN 1 ELSE 2)
            /\ store.state = req[p].post

C16_Witness ==
    \E p \in ClientIds :
        /\ NarratorFailed(p)
        /\ req[p].transition = "POP"
        /\ req[p].final.reply_to_user = <<"Let's proceed. ", "step_01_thermostat">>

\* C17: on every turn whose transition is ADVANCE, PUSH or POP onto a
\* parent, the decision handle_message returns has status IN_PROGRESS,
\* whatever the LLM answers.
C17_IntroductionInProgress ==
    \A p \in ClientIds :
        ( /\ EngineReturned(p)
          /\ req[p].transition \in {"ADVANCE", "PUSH", "POP"}
          /\ req[p].post.stack # <<>> )
        => req[p].final.status = "IN_PROGRESS"

\* Client p's call has loaded the session.
SessionLoaded(p) == req[p].pc # "idle" /\ req[p].outcome # "session_not_found"

\* The frame a cold start into workflow id pushes.
InitialFrame(id) ==
    [workflow_name |-> id, current_step_id |-> Workflows[id].start_step,
     pending_child_result |-> NoResult]

\* C18: the router is consulted in a turn exactly when the loaded stack
\* is empty; on a match the stack becomes the single frame (workflow id,
\* its start_step) and the engine runs on it in the same call, so a first
\* turn that holds ends at depth 1 on the start step.
C18_ColdStart ==
    \A p \in ClientIds :
        /\ SessionLoaded(p) => (req[p].cold <=> req[p].loaded.stack = <<>>)
        /\ req[p].cold /\ req[p].match # None =>
              /\ EngineEntered(p)
              /\ req[p].pre.stack = <<InitialFrame(req[p].match)>>
              /\ req[p].pre.history = req[p].loaded.history
        /\ req[p].cold /\ EngineReturned(p) /\ req[p].transition = "HOLD" =>
              req[p].post.stack = <<InitialFrame(req[p].match)>>

C18_Witness ==
    \E p \in ClientIds :
        /\ req[p].cold
        /\ req[p].match = "custom_guide"
        /\ EngineReturned(p)
        /\ req[p].transition = "HOLD"
        /\ req[p].loaded.history # <<>>

\* C19: when the stack is empty and the router finds no match,
\* process_message returns the fallback reply; the engine is not entered,
\* no LLM is called, nothing is saved, and the session keeps its empty
\* stack and its history.
C19_NoMatchFallback ==
    \A p \in ClientIds :
        req[p].pc = "done" /\ req[p].cold /\ req[p].match = None =>
            /\ req[p].outcome = "no_match"
            /\ req[p].final = NoMatchReply
            /\ ~EngineEntered(p)
            /\ ~ExecutorCalled(p)
            /\ req[p].executor_llm = "none"
            /\ req[p].narrator_llm = "none"
            /\ ~req[p].saved
            /\ req[p].post.stack = <<>>
            /\ req[p].post.history = req[p].loaded.history
            /\ store.state = req[p].loaded

C19_Witness ==
    \E p \in ClientIds :
        /\ req[p].pc = "done"
        /\ req[p].cold
        /\ req[p].match = None
        /\ req[p].text = "hi"
        /\ req[p].loaded.history # <<>>

\* C20: a process_message call for a session the store does not hold
\* (never created, or deleted) fails with not-found at once: it leaves the
\* store as it is, creating nothing, and reaches neither the router, nor
\* the engine, nor save.
C20_UnknownSessionFails ==
    [][ \A p \in AllClients :
          ( /\ req[p].pc \in {"idle", "done"}
            /\ req'[p] # req[p]
            /\ ~store.present )
          => /\ req'[p].pc = "done"
             /\ req'[p].outcome = "session_not_found"
             /\ ~req'[p].cold
             /\ ~req'[p].entered
             /\ ~req'[p].saved
             /\ req'[p].executor_llm = "none"
             /\ req'[p].narrator_llm = "none"
             /\ store' = store ]_vars

C20_Witness ==
    \E p \in AllClients :
        /\ req[p].pc = "done"
        /\ req[p].outcome = "session_not_found"
        /\ created
        /\ ~store.present

\* Client p's last call returned a reply and saved the session.
TurnSucceeded(p) == req[p].pc = "done" /\ req[p].outcome = "ok"

\* C21 as stated: after successful turns no two consecutive history
\* messages have the same role.
C21_StrictAlternation ==
    \A p \in ClientIds :
        TurnSucceeded(p) =>
            \A i \in 1..(Len(req[p].post.history) - 1) :
                req[p].post.history[i].role # req[p].post.history[i + 1].role

\* C21 amended: after successful turns the history ends with an
\* assistant message, no two consecutive messages are both from the user,
\* and every user message carries non-empty text; a turn with empty input
\* appends the assistant message alone, so its message follows the
\* previous turn's assistant message, and a turn with non-empty input
\* alternates with what was there.
C21_RolesAfterTurns ==
    \A p \in ClientIds :
        TurnSucceeded(p) =>
            LET h == req[p].post.history
                n == Len(req[p].pre.history)
            IN  /\ h[Len(h)].role = "assistant"
                /\ \A i \in 1..(Len(h) - 1) :
                      ~(h[i].role = "user" /\ h[i + 1].role = "user")
                /\ \A i \in 1..Len(h) : h[i].role = "user" => h[i].content # <<"">>
                /\ n >= 1 => (h[n].role = h[n + 1].role <=> req[p].text = "")

C21_Witness ==
    \E p \in ClientIds :
        /\ TurnSucceeded(p)
        /\ req[p].text = ""
        /\ Len(req[p].pre.history) >= 1
        /\ req[p].post.history[Len(req[p].pre.history)].role = "assistant"
        /\ req[p].post.history[Len(req[p].pre.history) + 1].role = "assistant"

\* C22: once the root workflow was popped and the stack is empty, the
\* next process_message takes the cold-start path again: the router is
\* consulted, on a match the stack becomes one fresh frame on the matched
\* workflow's start step, and the history accumulated so far is kept.
C22_ColdStartAfterRootPop ==
    \A p \in ClientIds :
        req[p].after_root_pop =>
            /\ req[p].loaded.stack = <<>>
            /\ req[p].loaded.history # <<>>
            /\ req[p].cold
            /\ req[p].match # None =>
                  /\ EngineEntered(p)
                  /\ req[p].pre.stack = <<InitialFrame(req[p].match)>>
                  /\ req[p].pre.history = req[p].loaded.history
            /\ req[p].pc = "done" => IsPrefix(req[p].loaded.history, req[p].post.history)

C22_Witness ==
    \E p \in ClientIds :
        /\ req[p].after_root_pop
        /\ req[p].match = "troubleshoot_lukewarm_water"
        /\ TurnSucceeded(p)
        /\ Len(req[p].post.stack) = 1
        /\ Len(req[p].post.history) > Len(req[p].loaded.history)

C24_SaveOfMissingFails ==
    [][ \A p \in AllClients :
          ( /\ InFlight(p)
            /\ req'[p].pc = "done"
            /\ req'[p].outcome \in {"ok", "session_not_in_db"}
            /\ ~store.present )
          => /\ req'[p].outcome = "session_not_in_db"
             /\ ~req'[p].saved
             /\ ~store'.present ]_vars

\* C25: every turn eventually completes, also when an LLM call never
\* answers: a call that has loaded the session eventually returns or
\* fails.
C25_TurnsComplete ==
    \A p \in AllClients : InFlight(p) ~> (req[p].pc = "done")

\* handle_message was called in client p's call on a session whose active
\* frame names a workflow the workflow store does not hold.
EnteredOnUnknownWorkflow(p) ==
    /\ EngineEntered(p)
    /\ req[p].pre.stack # <<>>
    /\ ~WorkflowExists(ActiveFrame(req[p].pre).workflow_name)

\* C26: handle_message fails when the workflow store does not hold the
\* active frame's workflow, before any prompt is built or LLM called and
\* with the session's stack and history as they were; nothing is saved.
C26_UnknownWorkflowFails ==
    \A p \in ClientIds :
        EnteredOnUnknownWorkflow(p) =>
            /\ req[p].pc = "done"
            /\ req[p].outcome = "workflow_not_found"
            /\ ~ExecutorCalled(p)
            /\ req[p].prompt = <<>>
            /\ req[p].executor_llm = "none"
            /\ req[p].narrator_llm = "none"
            /\ req[p].post.stack = req[p].pre.stack
            /\ req[p].post.history = req[p].pre.history
            /\ ~req[p].saved
            /\ store.state = req[p].loaded

C26_Witness ==
    \E p \in ClientIds :
        /\ EnteredOnUnknownWorkflow(p)
        /\ ActiveFrame(req[p].pre).workflow_name = "retired_guide"
        /\ Len(req[p].pre.stack) = 2
        /\ req[p].text = "hi"

\* C27: a decision with status IN_PROGRESS or GIVE_UP is a HOLD on every
\* step type, END included: after the turn the stack has the same depth
\* and every frame the same workflow_name and current_step_id as before,
\* the slots are the same, and only the history has grown.
C27_InProgressAndGiveUpHold ==
    \A p \in ClientIds :
        DecisionApplied(p) /\ req[p].decision.status \in {"IN_PROGRESS", "GIVE_UP"} =>
            /\ req[p].transition = "HOLD"
            /\ req[p].pc = "done"
            /\ req[p].outcome = "ok"
            /\ HoldRelation(req[p].pre.stack, req[p].post.stack)
            /\ req[p].post.slots = req[p].pre.slots
            /\ IsPrefix(req[p].pre.history, req[p].post.history)
            /\ Len(req[p].post.history) > Len(req[p].pre.history)
            /\ req[p].final = req[p].decision

C27_Witness ==
    \E p \in ClientIds :
        /\ DecisionApplied(p)
        /\ req[p].decision.status = "GIVE_UP"
        /\ FromStep(p).type = "end"
        /\ Len(req[p].pre.stack) = 2

\* The narrator has been invoked in client p's call: the transition
\* metadata has been built and handed to introduce_step.
NarratorInvoked(p) == req[p].meta.transition_type # "NONE"

\* The turn of client p's call was refused after the mutation because the
\* step of the new top frame cannot be looked up (malformed workflow).
RefusedAfterMutation(p) ==
    /\ req[p].pc = "done"
    /\ req[p].transition # "NONE"
    /\ req[p].outcome \in {"workflow_not_found", "step_not_found"}

C29_PopCarriesChildResult ==
    \A p \in ClientIds :
        ( /\ DecisionApplied(p)
          /\ req[p].transition = "POP"
          /\ SessionNow(p).stack # <<>> )
        => /\ NarratorInvoked(p)
           /\ req[p].meta.child_result =
                 <<WorkflowResult(ActiveFrame(req[p].pre).workflow_name,
                                  req[p].decision.reply_to_user)>>

\* C30: on every PUSH turn the narrator is invoked with meta.workflow_link
\* set to a link of the pre-transition step's suggested_links whose target
\* is the workflow that was pushed; no PUSH happens without such a link.
C30_PushHasMatchingLink ==
    \A p \in ClientIds :
        DecisionApplied(p) /\ req[p].transition = "PUSH" =>
            /\ NarratorInvoked(p)
            /\ req[p].meta.workflow_link = ActiveFrame(SessionNow(p)).workflow_name
            /\ \E i \in 1..Len(FromStep(p).suggested_links) :
                  FromStep(p).suggested_links[i] = req[p].meta.workflow_link

\* No frame of stack holds a child result.
MailboxesEmpty(stack) ==
    \A i \in 1..Len(stack) : stack[i].pending_child_result = NoResult

ParentAtEntry(p) == req[p].pre.stack[Len(req[p].pre.stack) - 1]

\* C32: a POP never writes a child result into a parent mailbox that
\* already holds one: the parent's mailbox is empty when _pop_frame sets it.
C32_PopNeverOverwrites ==
    \A p \in ClientIds :
        ( /\ DecisionApplied(p)
          /\ req[p].transition = "POP"
          /\ Len(req[p].pre.stack) >= 2 )
        => ParentAtEntry(p).pending_child_result = NoResult

C32_Witness ==
    \E p \in ClientIds :
        /\ DecisionApplied(p)
        /\ req[p].transition = "POP"
        /\ Len(req[p].pre.stack) >= 2
        /\ FromStep(p).type = "end"
        /\ ParentAtEntry(p).pending_child_result = NoResult
        /\ ~req[p].cold

\* A COMPLETE decision on an ASK_CHOICE step whose result_value is the id
\* of none of its options has been applied in client p's call.
CompletedWithoutOption(p) ==
    /\ DecisionApplied(p)
    /\ req[p].decision.status = "COMPLETE"
    /\ FromStep(p).type = "ask_choice"
    /\ SelectedOption(FromStep(p).options, req[p].decision.result_value) = 0

\* C33: a COMPLETE decision on an ASK_CHOICE step whose result_value
\* matches no option advances the frame to the step's default next_step
\* when that is defined and exists; when the step has no next_step the
\* turn fails with stack, step pointers and history as at entry.
C33_UnmatchedChoiceDefaults ==
    \A p \in ClientIds :
        CompletedWithoutOption(p) =>
            /\ ( /\ FromStep(p).next_step # None
                 /\ FromStep(p).next_step \in DOMAIN ContextWorkflow(req[p].pre).steps )
               => /\ req[p].transition = "ADVANCE"
                  /\ AdvanceRelation(req[p].pre.stack, SessionNow(p).stack)
                  /\ ActiveFrame(SessionNow(p)).current_step_id = FromStep(p).next_step
            /\ FromStep(p).next_step = None
               => /\ req[p].pc = "done"
                  /\ req[p].outcome = "no_next_step"
                  /\ req[p].post = req[p].pre
                  /\ ~req[p].saved

C33_Witness ==
    \E p \in ClientIds :
        /\ CompletedWithoutOption(p)
        /\ TurnSucceeded(p)
        /\ req[p].from_step = "c_step_01"
        /\ req[p].decision.result_value = "was_low"
        /\ ActiveFrame(req[p].post).current_step_id = "c_end"

\* A COMPLETE decision on an END step has been applied in client p's call.
CompletedOnEnd(p) ==
    /\ DecisionApplied(p)
    /\ req[p].decision.status = "COMPLETE"
    /\ FromStep(p).type = "end"

\* C34: a COMPLETE decision on an END step pops exactly the top frame.
\* With a parent, _apply_decision leaves the parent holding the result
\* (source the popped workflow's name, status SUCCESS, summary the
\* executor's reply, no slots) and every other frame as it was; with no
\* parent the stack is empty, no result is written, and the turn returns
\* the executor's COMPLETE decision.
C34_CompleteOnEndPops ==
    \A p \in ClientIds :
        CompletedOnEnd(p) =>
            /\ req[p].transition = "POP"
            /\ Len(req[p].mutated.stack) = Len(req[p].pre.stack) - 1
            /\ \A i \in 1..(Len(req[p].pre.stack) - 2) :
                  req[p].mutated.stack[i] = req[p].pre.stack[i]
            /\ Len(req[p].pre.stack) >= 2 =>
                  /\ Pointer(ActiveFrame(req[p].mutated)) = Pointer(ParentAtEntry(p))
                  /\ ActiveFrame(req[p].mutated).pending_child_result =
                        << [source_workflow_id |-> ActiveFrame(req[p].pre).workflow_name,
                            status |-> "SUCCESS",
                            summary |-> req[p].decision.reply_to_user,
                            slots_collected |-> <<>>] >>
            /\ Len(req[p].pre.stack) = 1 =>
                  /\ req[p].mutated.stack = <<>>
                  /\ req[p].pc = "done"
                  /\ req[p].post.stack = <<>>
                  /\ req[p].final = req[p].decision
                  /\ req[p].final.status = "COMPLETE"
            /\ req[p].mutated.history = req[p].pre.history
            /\ req[p].mutated.slots = req[p].pre.slots

C34_Witness ==
    \E p \in ClientIds :
        /\ CompletedOnEnd(p)
        /\ Len(req[p].pre.stack) = 2
        /\ ActiveFrame(req[p].mutated).pending_child_result # NoResult
        /\ ActiveFrame(req[p].mutated).pending_child_result[1].source_workflow_id
              = "drain_water_heater"

\* C35: the narrator runs after the state mutation of its turn and sees
\* it: its from_step is the step the executor ran on, and its to_step is
\* the step the top frame points at after the mutation (ADVANCE: the
\* resolved next step; PUSH: the pushed workflow's start_step; POP: the
\* parent's current step).
C35_NarratorSeesMutation ==
    \A p \in ClientIds :
        NarratorInvoked(p) =>
            /\ DecisionApplied(p)
            /\ req[p].intro_from = req[p].from_step
            /\ SamePointers(req[p].mutated.stack, SessionNow(p).stack,
                            Len(req[p].mutated.stack))
            /\ Len(SessionNow(p).stack) = Len(req[p].mutated.stack)
            /\ req[p].to_step = ActiveFrame(req[p].mutated).current_step_id
            /\ req[p].transition = "ADVANCE" =>
                  req[p].to_step = ResolveNextStepId(FromStep(p), req[p].decision)
            /\ req[p].transition = "PUSH" =>
                  req[p].to_step = Workflows[req[p].decision.result_value].start_step
            /\ req[p].transition = "POP" =>
                  req[p].to_step = ParentAtEntry(p).current_step_id

C35_Witness ==
    \E p \in ClientIds :
        /\ NarratorInvoked(p)
        /\ req[p].pc = "narrator"
        /\ req[p].transition = "PUSH"
        /\ req[p].from_step = "step_04_sediment"
        /\ req[p].to_step = "drain_step_01_power_off"

\* The order in which one process_message call passes its await points.
TurnOrder ==
    { <<"idle", "router">>, <<"idle", "executor">>, <<"idle", "done">>,
      <<"done", "router">>, <<"done", "executor">>, <<"done", "done">>,
      <<"router", "executor">>, <<"router", "done">>,
      <<"executor", "narrator">>, <<"executor", "done">>,
      <<"narrator", "done">> }

\* Where client p's call stands between its steps: the router is asked
\* only on an empty stack; while the executor's call is in flight the
\* session is as the engine found it; while the narrator's call is in
\* flight the decision has been applied and the history is not yet
\* appended; nothing is saved before the call is done.
TurnStage(p) ==
    /\ req[p].pc = "router" => req[p].loaded.stack = <<>> /\ ~req[p].entered
    /\ req[p].pc = "executor" =>
          /\ ~DecisionApplied(p)
          /\ SessionNow(p).stack = req[p].pre.stack
          /\ SessionNow(p).history = req[p].pre.history
    /\ req[p].pc = "narrator" =>
          /\ DecisionApplied(p)
          /\ req[p].executor_llm # "none"
          /\ SessionNow(p).stack = ClearMailbox(req[p].mutated).stack
          /\ SessionNow(p).history = req[p].pre.history
    /\ req[p].pc # "done" => ~req[p].saved

\* C36: a successful process_message turn runs load, router (on an empty
\* stack only), executor call, state mutation, optional narrator call,
\* history append, save, in this order; the session is saved once, as the
\* last step, with the history already appended, and the database row
\* changes at no other point of a turn.
C36_TurnOrder ==
    [][ \A p \in ClientIds :
          /\ TurnStage(p)'
          /\ req'[p].pc # req[p].pc => <<req[p].pc, req'[p].pc>> \in TurnOrder
          /\ (req'[p].saved /\ req'[p] # req[p]) =>
                /\ req[p].pc \in {"executor", "narrator"}
                /\ ~req[p].saved
                /\ req'[p].pc = "done"
                /\ req'[p].outcome = "ok"
                /\ req'[p].executor_llm # "none"
                /\ NarratorInvoked(p)' <=> req'[p].narrator_llm # "none"
                /\ req'[p].post.history[Len(req'[p].post.history)]
                      = [role |-> "assistant", content |-> req'[p].final.reply_to_user]
                /\ store' = Saved(req'[p].post)
          /\ (repo = "postgres" /\ created /\ store' # store) =>
                req'[p].saved /\ req'[p] # req[p]
      ]_vars

C36_Witness ==
    \E p \in ClientIds :
        /\ TurnSucceeded(p)
        /\ req[p].saved
        /\ req[p].cold
        /\ req[p].match = "troubleshoot_lukewarm_water"
        /\ req[p].transition = "ADVANCE"
        /\ req[p].narrator_llm = "ok"
        /\ store.state = req[p].post

\* Every frame below the top of the session still points at the workflow
\* and step it pointed at when the frame above it was pushed.
CallersInPlace(session) ==
    /\ Len(session.calls) = (IF session.stack = <<>> THEN 0 ELSE Len(session.stack) - 1)
    /\ \A i \in 1..Len(session.calls) : Pointer(session.stack[i]) = session.calls[i]

\* C37: between the PUSH of a child frame and the POP of that frame no
\* turn changes the parent frame's workflow_name or current_step_id, in
\* the session of a call in flight, in the session a call ended with, and
\* in the store; so a POP leaves the parent on top on the step from which
\* the child was called.
C37_CallReturnDiscipline ==
    /\ store.present => CallersInPlace(store.state)
    /\ \A p \in ClientIds :
          /\ req[p].pc # "idle" => CallersInPlace(SessionNow(p))
          /\ ( /\ DecisionApplied(p)
               /\ req[p].transition = "POP"
               /\ Len(req[p].pre.stack) >= 2 )
             => /\ Pointer(ActiveFrame(SessionNow(p)))
                      = req[p].pre.calls[Len(req[p].pre.calls)]
                /\ SessionNow(p).calls
                      = SubSeq(req[p].pre.calls, 1, Len(req[p].pre.calls) - 1)

C37_Witness ==
    \E p \in ClientIds :
        /\ TurnSucceeded(p)
        /\ req[p].transition = "POP"
        /\ repo = "memory"
        /\ req[p].loaded.calls = << <<"troubleshoot_lukewarm_water", "step_01_thermostat">> >>
        /\ Pointer(ActiveFrame(req[p].post))
              = <<"troubleshoot_lukewarm_water", "step_01_thermostat">>
        /\ req[p].post.calls = <<>>

\* Session s has no slot, and no result held in one of its mailboxes has
\* a collected slot.
NoSlots(s) ==
    /\ s.slots = <<>>
    /\ \A i \in 1..Len(s.stack) :
          s.stack[i].pending_child_result # NoResult =>
              s.stack[i].pending_child_result[1].slots_collected = <<>>

WellFormed(stack) ==
    \A i \in 1..Len(stack) :
        /\ WorkflowExists(stack[i].workflow_name)
        /\ stack[i].current_step_id \in DOMAIN Workflows[stack[i].workflow_name].steps

\* Client p's call has put a frame on a step that its workflow does not
\* have, by a cold start or by a push into draft_guide.
EnteredDangling(p) ==
    /\ req[p].pc = "done"
    /\ req[p].post.stack # <<>>
    /\ ~WellFormed(req[p].post.stack)

\* C39: the session a successful turn has saved has only frames that name
\* a workflow of the workflow store and a step of that workflow; a turn
\* that puts a frame on a dangling start_step or edge fails before the
\* save, and the database row never holds such a frame.
C39_SavedStackWellFormed ==
    /\ \A p \in ClientIds :
          /\ TurnSucceeded(p) => WellFormed(req[p].post.stack)
          /\ req[p].saved => WellFormed(req[p].post.stack)
          /\ EnteredDangling(p) => TurnFailed(p) /\ ~req[p].saved
    /\ (repo = "postgres" /\ store.present) => WellFormed(store.state.stack)

C39_Witness ==
    \E p \in ClientIds :
        /\ EnteredDangling(p)
        /\ req[p].transition = "PUSH"
        /\ req[p].decision.result_value = "draft_guide"
        /\ req[p].outcome = "step_not_found"
        /\ TurnFailed(p)
        /\ store.present
        /\ WellFormed(req[p].loaded.stack)

\* The stored session has no active workflow.
StackEmptied == store.present /\ store.state.stack = <<>>

====
